---- MODULE Spec2Model ----
(***************************************************************************)
(* CogniCart multi-agent shopping assistant: the Coordinator's four entry  *)
(* points (process_user_query, compare_products, get_detailed_product_info,*)
(* handle_follow_up) over the product search, review and deal agents.      *)
(*                                                                         *)
(* Conventions of the model                                                *)
(*  - ratings are kept in tenths of a star (4.2 stars = 42), so that the   *)
(*    code's float comparisons stay exact integer comparisons;             *)
(*  - a JSON value returned by the completion client is a record with a    *)
(*    field "shape" ("dict", "list", "none"); a missing key of a dict is   *)
(*    the empty string or 0, which is what the code's .get(k, default) and *)
(*    truthiness tests read it as;                                         *)
(*  - a call that can raise returns a record with the field "raised";      *)
(*  - process_user_query is modelled one await point at a time (pc), the   *)
(*    other entry points as one step each.                                 *)
(***************************************************************************)
EXTENDS Integers, Sequences, FiniteSets, TLC

(***************************************************************************)
(* Bounds of the model (not program constants).                            *)
(***************************************************************************)
\* number of products of the in-memory catalogue (18 in the source)
NumDbProducts == 7

(***************************************************************************)
(* Program constants.                                                      *)
(***************************************************************************)
\* coordinator_agent.py:49   top_products = products[:3]
TopN == 3
\* product_search_agent.py:33   max_products=6
MaxProducts == 6
\* product_search_agent.py:54   ranked_products[:6]
ReturnTop == 6
\* product_search_agent.py:165  rating < 3.5, in tenths
MinRating == 35
\* product_search_agent.py:80   for i in range(6)
FallbackCount == 6
\* product_search_agent.py:111  laptop / computer base price
LaptopBasePrice == 45000
\* product_search_agent.py:119  default base price
DefaultBasePrice == 2000
\* fast_product_database.py:299  product_type word hit, in tenths
TypeHitScore == 80
\* fast_product_database.py:314  specific product type match, in tenths
TypeMatchScore == 150
\* deal_finder_agent.py:130  base score
DealBaseScore == 50
\* deal_finder_agent.py:134  cap of the rating factor
DealRatingCap == 25
\* deal_finder_agent.py:138  cap of the review count factor
DealReviewCap == 15
\* deal_finder_agent.py:141  default value_rating
DefaultValueRating == 5
\* product_search_agent.py:471  random.randint(3, 5): least number of reviews
MinReviews == 3
\* product_search_agent.py:214  timeout=10.0
RankTimeout == 10

Min(a, b) == IF a < b THEN a ELSE b
Max(a, b) == IF a > b THEN a ELSE b

(***************************************************************************)
(* JSON values of the completion client (base_agent.py).                   *)
(***************************************************************************)
CompletionOutcomes == {"ok", "unparsable", "timeout", "wrong_shape"}

EmptyDict == [shape |-> "dict", empty |-> TRUE]
JsonList == [shape |-> "list"]
JsonNone == [shape |-> "none"]

\* a faulty variant: parse_json_response with "return None" in place of "return {}"
ParseJsonResponseNone(outcome, value) ==
    IF outcome \in {"ok", "wrong_shape"} THEN value ELSE JsonNone

\* BaseAgent.parse_json_response: generate_response returns "" on any failure
\* of the client, json.loads then raises and the handler returns {}.  Content
\* that parses is returned as it is, whatever its shape.
ParseJsonResponse(outcome, value) ==
    IF outcome \in {"ok", "wrong_shape"} THEN value ELSE EmptyDict

IsDict(v) == v.shape = "dict"

(***************************************************************************)
(* The catalogue (fast_product_database.py).                               *)
(***************************************************************************)
DbIds == 1..NumDbProducts

\* One catalogue entry.  Types alternate, prices and review counts grow with
\* the index, ratings stay within the 3.9 .. 4.6 of the source's table.
DbProduct(i) ==
    [id |-> i,
     product_type |-> IF i % 2 = 1 THEN "laptop" ELSE "smartphone",
     price |-> 10000 * i,
     rating |-> 39 + ((3 * i) % 8),
     review_count |-> 1000 * i,
     source |-> "fast_database"]

\* FastProductDatabase.products, in table order
DbProducts == [i \in DbIds |-> DbProduct(i)]

\* FastProductDatabase._calculate_relevance_score, in tenths.  The query is one
\* word here; no title, brand or feature of the catalogue contains it, and it
\* never holds "under", so those terms contribute 0.
CalculateRelevanceScore(product, query) ==
    (IF query = product.product_type THEN TypeHitScore ELSE 0)
    + (IF query \in {"laptop", "smartphone"} /\ product.product_type = query
         THEN TypeMatchScore ELSE 0)
    + product.rating

\* list.sort(key, reverse=True): stable, equal keys keep their input order.
InsertPair(sorted, x) ==
    LET idx == Cardinality({k \in 1..Len(sorted) : sorted[k].key >= x.key})
    IN  SubSeq(sorted, 1, idx) \o <<x>> \o SubSeq(sorted, idx + 1, Len(sorted))

RECURSIVE SortPairs(_)
SortPairs(s) ==
    IF s = <<>> THEN <<>>
    ELSE InsertPair(SortPairs(SubSeq(s, 1, Len(s) - 1)), s[Len(s)])

SortDescBy(keys, vals) ==
    LET pairs == [k \in 1..Len(vals) |-> [key |-> keys[k], val |-> vals[k]]]
        sorted == SortPairs(pairs)
    IN  [k \in 1..Len(sorted) |-> sorted[k].val]

RECURSIVE SelectSeqBy(_, _)
SelectSeqBy(s, keep) ==
    IF s = <<>> THEN <<>>
    ELSE LET rest == SelectSeqBy(SubSeq(s, 1, Len(s) - 1), keep)
         IN  IF keep[Len(s)] THEN Append(rest, s[Len(s)]) ELSE rest

Take(s, n) == SubSeq(s, 1, Min(n, Len(s)))
Drop(s, n) == SubSeq(s, n + 1, Len(s))

\* FastProductDatabase.search_products on a cache miss: every product with a
\* positive score, by descending score.
DbMatched(query) ==
    LET scores == [i \in DbIds |-> CalculateRelevanceScore(DbProducts[i], query)]
        hits == SelectSeqBy(DbProducts, [i \in DbIds |-> scores[i] > 0])
        hitScores == SelectSeqBy(scores, [i \in DbIds |-> scores[i] > 0])
    IN  SortDescBy(hitScores, hits)

\* FastProductDatabase.get_product_by_id: the product, or {} when unknown
DbGetProductById(id) ==
    IF id \in DbIds THEN [found |-> TRUE, product |-> DbProducts[id]]
    ELSE [found |-> FALSE]

(***************************************************************************)
(* Replies of the completion client to parse_query                         *)
(* (query_understanding_agent.py:14-46).                                   *)
(***************************************************************************)
Get(v, field, default) == IF field \in DOMAIN v THEN v[field] ELSE default

BudgetChoices == {0, 5000, 15000, 40000}

\* a reply that follows the prompt's schema
QueryReplies ==
    {[shape |-> "dict", empty |-> FALSE, product_type |-> "laptop",
      budget_null |-> FALSE, budget_max |-> m, budget_min |-> 0] :
        m \in BudgetChoices}

\* replies that parse but do not follow the schema: a JSON array, and a
\* mapping whose "budget" is null
QueryWrongShapes ==
    {JsonList,
     [shape |-> "dict", empty |-> FALSE, product_type |-> "laptop",
      budget_null |-> TRUE, budget_max |-> 0, budget_min |-> 0]}

RepliesFor(outcome, replies, wrong) ==
    CASE outcome = "ok" -> replies
      [] outcome = "wrong_shape" -> wrong
      [] OTHER -> {EmptyDict}

(***************************************************************************)
(* ProductSearchAgent (product_search_agent.py).                           *)
(***************************************************************************)
\* _build_search_query: the product type, else "electronics" (the modelled
\* replies carry no category, brand or feature)
BuildSearchQuery(query_data) ==
    LET pt == Get(query_data, "product_type", "")
    IN  IF pt # "" THEN pt ELSE "electronics"

\* product_cache is a dict in insertion order: a sequence of [key, products]
CacheKeys(cache) == {cache[k].key : k \in 1..Len(cache)}

CacheGet(cache, key) ==
    LET k == CHOOSE k \in 1..Len(cache) : cache[k].key = key
    IN  cache[k].products

\* a faulty variant: a write drops every other entry
CacheWriteEvicting(cache, key, products) == <<[key |-> key, products |-> products]>>

\* a faulty variant: a second write of a key loses the first product
CacheWriteTruncating(cache, key, products) ==
    IF key \in CacheKeys(cache)
    THEN [k \in 1..Len(cache) |->
            IF cache[k].key = key
            THEN [key |-> key, products |-> SubSeq(products, 2, Len(products))]
            ELSE cache[k]]
    ELSE Append(cache, [key |-> key, products |-> products])

\* self.product_cache[cache_key] = search_products (line 40): a new key goes
\* to the end, a key already there keeps its place and takes the new value
CacheWrite(cache, key, products) ==
    IF key \in CacheKeys(cache)
    THEN [k \in 1..Len(cache) |->
            IF cache[k].key = key THEN [key |-> key, products |-> products]
            ELSE cache[k]]
    ELSE Append(cache, [key |-> key, products |-> products])

\* self.search_cache[cache_key] = matched_products
\* (fast_product_database.py:282)
DbCacheWrite(dbcache, key, matched) ==
    [k \in DOMAIN dbcache \cup {key} |-> IF k = key THEN matched ELSE dbcache[k]]

\* "unique_<uuid>": an id no other product carries
UniqueId(i) == 0 - i

\* _ensure_unique_ids: a product whose id was seen earlier in the list gets a
\* fresh id
RECURSIVE EnsureUniqueIds(_)
EnsureUniqueIds(products) ==
    IF products = <<>> THEN <<>>
    ELSE LET n == Len(products)
             done == EnsureUniqueIds(SubSeq(products, 1, n - 1))
             seen == {done[k].id : k \in 1..Len(done)}
             p == products[n]
         IN  Append(done, IF p.id \in seen THEN [p EXCEPT !.id = UniqueId(n)] ELSE p)

\* _estimate_price_from_query
EstimatePriceFromQuery(query) ==
    IF query = "laptop" THEN LaptopBasePrice ELSE DefaultBasePrice

\* "fallback_<uuid>": an id of neither the catalogue nor the cache
FallbackId(k) == NumDbProducts + FallbackCount + k

\* the random draws of _generate_quick_fallback: a price factor in percent
\* (uniform(0.8, 1.3)) and a rating (uniform(3.8, 4.5))
FallbackDraws == [pct : {80, 130}, rating : {38, 45}]

\* _generate_quick_fallback
GenerateQuickFallback(query, draw) ==
    [k \in 1..FallbackCount |->
        [id |-> FallbackId(k),
         product_type |-> query,
         price |-> (EstimatePriceFromQuery(query) * draw.pct) \div 100,
         rating |-> draw.rating,
         review_count |-> 100 * k,
         source |-> "fallback"]]

\* _filter_products: budget and the 3.5 star floor; a brand mismatch removes
\* nothing.  budget = query_data.get("budget", {}) is None for a null budget
\* and budget.get then raises AttributeError.
\* a faulty variant: the filter without the test of budget.max
FilterKeepsNoMax(product, query_data) ==
    LET bmin == Get(query_data, "budget_min", 0)
    IN  /\ ~(bmin # 0 /\ product.price < bmin)
        /\ ~(product.rating < MinRating)

\* lines 157-160: brand preferences are given and none is part of the brand
BrandMismatch(product, query_data) ==
    LET brand_prefs == Get(query_data, "brand_preferences", <<>>)
    IN  /\ brand_prefs # <<>>
        /\ ~\E k \in 1..Len(brand_prefs) : brand_prefs[k] = Get(product, "brand", "")

\* a faulty variant: a brand mismatch skips the product
FilterKeepsBrandHard(product, query_data) ==
    LET bmax == Get(query_data, "budget_max", 0)
        bmin == Get(query_data, "budget_min", 0)
    IN  /\ ~(bmax # 0 /\ product.price > bmax)
        /\ ~(bmin # 0 /\ product.price < bmin)
        /\ ~BrandMismatch(product, query_data)
        /\ ~(product.rating < MinRating)

\* one iteration of the loop of lines 148-168: TRUE when the product is
\* appended.  The brand test of lines 158-162 ends in "pass".
FilterKeeps(product, query_data) ==
    LET bmax == Get(query_data, "budget_max", 0)
        bmin == Get(query_data, "budget_min", 0)
    IN  /\ ~(bmax # 0 /\ product.price > bmax)
        /\ ~(bmin # 0 /\ product.price < bmin)
        /\ (BrandMismatch(product, query_data) => TRUE)
        /\ ~(product.rating < MinRating)

FilterProducts(products, query_data) ==
    IF Get(query_data, "budget_null", FALSE) /\ products # <<>>
    THEN [raised |-> TRUE, exc |-> "AttributeError"]
    ELSE [raised |-> FALSE,
          products |-> SelectSeqBy(products,
                          [k \in 1..Len(products) |-> FilterKeeps(products[k], query_data)])]

\* the fallback sort key rating*0.7 + min(review_count/1000, 5)*0.3, times 10000
RankKey(p) == 700 * p.rating + 3 * Min(p.review_count, 5000)

\* replies of the ranking call that are lists of integers (0-based indices)
\* for n candidates: a full reordering, an empty list, a repeated index, an
\* index out of range
RankStyles == {"reverse", "empty", "repeat", "out_of_range"}

RankReply(style, n) ==
    CASE style = "reverse" -> [shape |-> "list", items |-> [k \in 1..n |-> n - k]]
      [] style = "empty" -> [shape |-> "list", items |-> <<>>]
      [] style = "repeat" -> [shape |-> "list", items |-> <<0, 0>>]
      [] OTHER -> [shape |-> "list", items |-> <<n>>]

\* the loop of lines 220-222: valid indices in reply order, others skipped
RECURSIVE PickByIndex(_, _)
PickByIndex(products, items) ==
    IF items = <<>> THEN <<>>
    ELSE LET rest == PickByIndex(products, SubSeq(items, 1, Len(items) - 1))
             ix == items[Len(items)]
         IN  IF 0 <= ix /\ ix < Len(products)
             THEN Append(rest, products[ix + 1]) ELSE rest

\* _rank_products: the order of the reply when it is a list of integers, else
\* (timeout, exception, {} of a failed completion, any other shape) the
\* deterministic sort
RankProducts(products, outcome, reply) ==
    IF products = <<>> THEN <<>>
    ELSE IF ParseJsonResponse(outcome, reply).shape = "list"
    THEN PickByIndex(products, ParseJsonResponse(outcome, reply).items)
    ELSE SortDescBy([k \in 1..Len(products) |-> RankKey(products[k])], products)

\* base_agent.py:21 calls self.model.generate_content(...) without await: the
\* coroutine parse_json_response never hands control to the event loop
CompletionYields == FALSE

\* seconds a completion call may take: within and beyond the limit of line 214
ElapsedChoices == {1, 30}

\* asyncio.wait_for(self.parse_json_response(prompt), timeout=10.0), lines
\* 212-215: TimeoutError only when the timer fires while the coroutine is
\* suspended; a coroutine that never suspends returns its value however long
\* it ran
WaitFor(outcome, elapsed) ==
    IF CompletionYields /\ elapsed > RankTimeout THEN "timeout" ELSE outcome

\* the reply of the ranking call: a list of integers when it follows the
\* prompt, a mapping when it parses but does not
RankReplyFor(outcome, style, n) ==
    IF outcome = "ok" THEN RankReply(style, n)
    ELSE [shape |-> "dict", empty |-> FALSE]

\* search_products.  env = [db, draw, rank, style, elapsed]: whether the
\* catalogue search raises, the draws of the generated fallback, the outcome,
\* the reply and the duration of the ranking call.
SearchProducts(cache, dbcache, query_data, env) ==
    LET search_query == BuildSearchQuery(query_data)
        hit == search_query \in CacheKeys(cache)
        dbhit == search_query \in DOMAIN dbcache
        matched == IF dbhit THEN dbcache[search_query] ELSE DbMatched(search_query)
        fresh == EnsureUniqueIds(Take(matched, MaxProducts))
        cached_products ==
            IF hit THEN CacheGet(cache, search_query)
            ELSE IF env.db = "ok" THEN fresh
            ELSE GenerateQuickFallback(search_query, env.draw)
        cache2 == IF ~hit /\ env.db = "ok"
                  THEN CacheWrite(cache, search_query, fresh)
                  ELSE cache
        dbcache2 == IF ~hit /\ env.db = "ok" /\ ~dbhit
                    THEN DbCacheWrite(dbcache, search_query, matched)
                    ELSE dbcache
        filtered == FilterProducts(cached_products, query_data)
    IN  IF cached_products = <<>>
        THEN [raised |-> FALSE, products |-> <<>>, cache |-> cache2, dbcache |-> dbcache2,
              ranked |-> FALSE]
        ELSE IF filtered.raised
        THEN [raised |-> TRUE, exc |-> filtered.exc, cache |-> cache2, dbcache |-> dbcache2,
              ranked |-> FALSE]
        ELSE [raised |-> FALSE,
              products |-> Take(RankProducts(filtered.products,
                                   WaitFor(env.rank, env.elapsed),
                                   RankReplyFor(WaitFor(env.rank, env.elapsed), env.style,
                                                Len(filtered.products))),
                                ReturnTop),
              cache |-> cache2, dbcache |-> dbcache2,
              ranked |-> filtered.products # <<>>]

(***************************************************************************)
(* ProductSearchAgent.get_product_details and its random review generator. *)
(***************************************************************************)
\* the dict {"error": "Product not found"}
NotFoundDetails == [kind |-> "error", error |-> "Product not found"]

\* the first cached product carrying the id, over the cache entries in
\* insertion order (lines 238-244)
RECURSIVE FindInCache(_, _)
FindInCache(cache, id) ==
    IF cache = <<>> THEN [found |-> FALSE]
    ELSE LET ps == cache[1].products
             hits == {k \in 1..Len(ps) : ps[k].id = id}
         IN  IF hits # {}
             THEN [found |-> TRUE, product |-> ps[CHOOSE k \in hits : \A j \in hits : k <= j]]
             ELSE FindInCache(SubSeq(cache, 2, Len(cache)), id)

\* _generate_realistic_reviews draws each review's rating as
\* round(max(1, min(5, rating + uniform(-0.5, 0.5))), 1).  Two of the draws are
\* kept: the product's own rating and the nearest whole star; every review of
\* a list carries the same one.
ReviewRatingChoices(product) ==
    {Max(10, Min(50, product.rating)), 10 * ((product.rating + 5) \div 10)}

ReviewChoices(product) ==
    {[k \in 1..MinReviews |-> r] : r \in ReviewRatingChoices(product)}

\* get_product_details: the cache, then the catalogue, else the error dict.
\* A product that is found is returned with its generated details; the reply
\* of _enhance_product_details adds keys the coordinator never reads, and
\* every one of its failures is absorbed there (lines 303-314).
GetProductDetails(cache, id, reviews) ==
    LET c == FindInCache(cache, id)
        d == DbGetProductById(id)
    IN  IF c.found THEN [kind |-> "details", product |-> c.product, reviews |-> reviews]
        ELSE IF d.found THEN [kind |-> "details", product |-> d.product, reviews |-> reviews]
        ELSE NotFoundDetails

IsFound(details) == details.kind = "details"

\* the truth value Python gives the returned dict: a non-empty dict is true,
\* the error dict included
Truthy(details) == details.kind \in {"details", "error"}

(***************************************************************************)
(* ReviewAnalyzerAgent (review_analyzer_agent.py).                         *)
(***************************************************************************)
ReviewAnalyzerMethods ==
    {"analyze_product_reviews", "_analyze_reviews_with_ai", "_fallback_analysis",
     "_calculate_review_stats", "compare_product_reviews", "_compare_reviews_with_ai",
     "get_review_insights", "_generate_query_specific_insights"}

ReviewReplies == {[shape |-> "dict", empty |-> FALSE, overall_sentiment |-> "positive"]}
ReviewWrongShapes == {JsonList}

\* the fixed result for a product without reviews (lines 17-27)
ZeroReviewDefault ==
    [overall_sentiment |-> "neutral", sentiment_breakdown |-> <<50, 30, 20>>,
     recommendation_confidence |-> "low"]

\* _analyze_reviews_with_ai: the reply when it is a dict, else {}.
\* parse_json_response never raises, so the except branch with
\* _fallback_analysis is never taken.
AnalyzeReviewsWithAi(outcome, reply) ==
    LET analysis == ParseJsonResponse(outcome, reply)
    IN  IF IsDict(analysis) THEN analysis ELSE EmptyDict

RECURSIVE SeqSum(_)
SeqSum(s) == IF s = <<>> THEN 0 ELSE s[1] + SeqSum(SubSeq(s, 2, Len(s)))

\* round half to even of num/den
RoundDiv(num, den) ==
    LET q == num \div den
        r2 == 2 * (num % den)
    IN  IF r2 > den \/ (r2 = den /\ q % 2 = 1) THEN q + 1 ELSE q

\* a faulty variant: the percentage rounded up
PercentCeil(count, total) == (100 * count + total - 1) \div total

\* round((count / total_reviews) * 100), lines 109-111
Percent(count, total) == RoundDiv(100 * count, total)

\* _fallback_analysis (lines 95-127); ratings in tenths of a star.  The
\* breakdown is <<positive, neutral, negative>>.
FallbackAnalysis(reviews) ==
    LET positive_reviews == Cardinality({k \in 1..Len(reviews) : reviews[k] >= 40})
        negative_reviews == Cardinality({k \in 1..Len(reviews) : reviews[k] <= 20})
        neutral_reviews == Len(reviews) - positive_reviews - negative_reviews
        total_reviews == Len(reviews)
    IN  [overall_sentiment |->
            IF positive_reviews > negative_reviews THEN "positive"
            ELSE IF negative_reviews > positive_reviews THEN "negative"
            ELSE "neutral",
         sentiment_breakdown |->
            IF total_reviews = 0 THEN <<50, 30, 20>>
            ELSE <<Percent(positive_reviews, total_reviews),
                   Percent(neutral_reviews, total_reviews),
                   Percent(negative_reviews, total_reviews)>>,
         recommendation_confidence |-> "medium"]

\* _calculate_review_stats.  rating_dist has the integer keys 1..5 and
\* rating_dist[rating] += 1 raises KeyError for a rating such as 4.3.  The
\* reviews carry the key "verified", the code reads "verified_purchase", so
\* verified_count stays 0.
CalculateReviewStats(reviews) ==
    IF reviews = <<>>
    THEN [raised |-> FALSE,
          value |-> [total_reviews |-> 0, average_rating |-> 0,
                     rating_distribution |-> [star \in 1..5 |-> 0],
                     verified_purchase_percentage |-> 0]]
    ELSE IF \E k \in 1..Len(reviews) : 10 <= reviews[k] /\ reviews[k] <= 50 /\ reviews[k] % 10 # 0
    THEN [raised |-> TRUE, exc |-> "KeyError"]
    ELSE LET total == Len(reviews)
         IN  [raised |-> FALSE,
              value |-> [total_reviews |-> total,
                         average_rating |-> RoundDiv(SeqSum(reviews), total),
                         rating_distribution |->
                            [star \in 1..5 |->
                                Cardinality({k \in 1..total : reviews[k] = 10 * star})],
                         verified_purchase_percentage |-> 0]]

\* analyze_product_reviews
AnalyzeProductReviews(details, outcome, reply) ==
    LET reviews == Get(details, "reviews", <<>>)
        stats == CalculateReviewStats(reviews)
    IN  IF reviews = <<>> THEN [raised |-> FALSE, called_ai |-> FALSE, value |-> ZeroReviewDefault]
        ELSE IF stats.raised THEN [raised |-> TRUE, called_ai |-> TRUE, exc |-> stats.exc]
        ELSE [raised |-> FALSE, called_ai |-> TRUE,
              value |-> [analysis |-> AnalyzeReviewsWithAi(outcome, reply),
                         review_statistics |-> stats.value]]

(***************************************************************************)
(* DealFinderAgent (deal_finder_agent.py).                                 *)
(***************************************************************************)
DealFinderMethods ==
    {"find_product_deals", "_analyze_product_for_deals", "_ai_deal_analysis",
     "_fallback_deal_analysis", "_calculate_deal_score", "_identify_deal_type",
     "_estimate_savings", "_get_price_trend_insight", "_generate_deal_summary",
     "_fallback_deal_summary", "compare_deal_value", "_ai_deal_comparison",
     "get_price_alerts"}

DealReplies ==
    {[shape |-> "dict", empty |-> FALSE, value_rating |-> 8, numeric |-> TRUE,
      recommendation |-> "good_buy"]}
\* a JSON array, and a mapping whose value_rating is a string
DealWrongShapes ==
    {JsonList,
     [shape |-> "dict", empty |-> FALSE, value_rating |-> 8, numeric |-> FALSE,
      recommendation |-> "good_buy"]}

\* _ai_deal_analysis
AiDealAnalysis(outcome, reply) ==
    LET analysis == ParseJsonResponse(outcome, reply)
    IN  IF IsDict(analysis) THEN analysis ELSE EmptyDict

\* a faulty variant: the score without the floor of 0
CalculateDealScoreNoFloor(product, deal_analysis) ==
    LET value_rating == Get(deal_analysis, "value_rating", DefaultValueRating)
        score == 10 * DealBaseScore
                 + Min(product.rating * 5, 10 * DealRatingCap)
                 + Min(product.review_count \div 10, 10 * DealReviewCap)
                 + 10 * value_rating
    IN  IF ~Get(deal_analysis, "numeric", TRUE)
        THEN [raised |-> TRUE, exc |-> "TypeError"]
        ELSE [raised |-> FALSE, value |-> Min(score, 1000)]

\* _calculate_deal_score, in tenths of a point; score += value_rating raises
\* TypeError for a value_rating that is no number
CalculateDealScore(product, deal_analysis) ==
    LET value_rating == Get(deal_analysis, "value_rating", DefaultValueRating)
        score == 10 * DealBaseScore
                 + Min(product.rating * 5, 10 * DealRatingCap)
                 + Min(product.review_count \div 10, 10 * DealReviewCap)
                 + 10 * value_rating
    IN  IF ~Get(deal_analysis, "numeric", TRUE)
        THEN [raised |-> TRUE, exc |-> "TypeError"]
        ELSE [raised |-> FALSE, value |-> Min(Max(score, 0), 1000)]

\* _identify_deal_type
IdentifyDealType(deal_analysis) ==
    LET value_rating == Get(deal_analysis, "value_rating", DefaultValueRating)
        recommendation == Get(deal_analysis, "recommendation", "")
    IN  IF recommendation = "strong_buy" \/ value_rating >= 8 THEN "excellent_value"
        ELSE IF recommendation = "good_buy" \/ value_rating >= 7 THEN "good_value"
        ELSE IF value_rating >= 6 THEN "fair_value"
        ELSE "average_value"

\* Python's None
None == [kind |-> "none"]

\* _analyze_product_for_deals: None for a price of 0 (the error dict has no
\* price), else the scored analysis
AnalyzeProductForDeals(details, outcome, reply) ==
    IF ~IsFound(details) \/ details.product.price = 0
    THEN [raised |-> FALSE, called_ai |-> FALSE, value |-> None]
    ELSE LET deal_analysis == AiDealAnalysis(outcome, reply)
             score == CalculateDealScore(details.product, deal_analysis)
         IN  IF score.raised THEN [raised |-> TRUE, called_ai |-> TRUE, exc |-> score.exc]
             ELSE [raised |-> FALSE, called_ai |-> TRUE,
                   value |-> [kind |-> "deal", deal_score |-> score.value,
                              deal_type |-> IdentifyDealType(deal_analysis)]]

(***************************************************************************)
(* CoordinatorAgent (coordinator_agent.py): results and per-product        *)
(* enrichment.                                                             *)
(***************************************************************************)
NoResult == [type |-> "none"]

\* lines 34-44
NoProductsFound(pq) ==
    [type |-> "no_products_found",
     message |-> "I couldn't find any products matching your criteria using real-time search. Let me suggest some alternatives.",
     parsed_query |-> pq]

\* a faulty variant: the handler of process_user_query without the error description
PuqErrorResultBare(exc) ==
    [type |-> "error",
     message |-> "I encountered an error while searching for real products. This could be due to network issues or website changes. Please try again with simpler search terms."]

\* lines 106-118
PuqErrorResult(exc) ==
    [type |-> "error",
     message |-> "I encountered an error while searching for real products. This could be due to network issues or website changes. Please try again with simpler search terms.",
     error |-> exc]

\* lines 159-164
CompareErrorResult(exc) ==
    [type |-> "error", message |-> "Error comparing products.", error |-> exc]

\* lines 199-204
DetailsErrorResult(exc) ==
    [type |-> "error", message |-> "Error getting product details.", error |-> exc]

\* lines 329-334
FollowUpErrorResult(exc) ==
    [type |-> "error", message |-> "Could you please rephrase your question?", error |-> exc]

\* lines 132-135
TooFewProducts ==
    [type |-> "error", message |-> "I need at least 2 products to make a comparison."]

\* lines 180-183
ProductNotFound == [type |-> "error", message |-> "Product not found."]

\* the tags of what went wrong during a request
\*   "completion": a completion call timed out or returned unparsable content
\*   "shape":      a completion call returned content that parses but does not
\*                 follow the prompt's schema
\*   "catalogue":  the catalogue search raised
\*   "enrichment": a call of one candidate's enrichment raised (lines 55-72)
\*   "raised":     any other call made by the coordinator raised
FaultOf(outcome) ==
    CASE outcome \in {"unparsable", "timeout"} -> {"completion"}
      [] outcome = "wrong_shape" -> {"shape"}
      [] OTHER -> {}

\* a faulty variant: a placeholder that keeps the batch but reports a negative sentiment
PlaceholderNegative(product) ==
    [origin |-> product.id,
     base |-> [kind |-> "product", product |-> product],
     review_analysis |-> [overall_sentiment |-> "negative",
                          review_summary |-> "Unable to analyze reviews at this time"],
     deal_analysis |-> [kind |-> "placeholder", deal_type |-> "standard_pricing",
                        value_assessment |-> "Price information available"],
     source |-> "real_scraping"]

\* lines 77-88: the candidate itself with the two placeholder analyses.
\* "origin" records the candidate an entry was built from.
Placeholder(product) ==
    [origin |-> product.id,
     base |-> [kind |-> "product", product |-> product],
     review_analysis |-> [overall_sentiment |-> "neutral",
                          review_summary |-> "Unable to analyze reviews at this time"],
     deal_analysis |-> [kind |-> "placeholder", deal_type |-> "standard_pricing",
                        value_assessment |-> "Price information available"],
     source |-> "real_scraping"]

\* lines 65-70: the detailed product (or the error dict) with its analyses
Enhanced(product, details, review_analysis, deal_analysis) ==
    [origin |-> product.id,
     base |-> details,
     review_analysis |-> review_analysis,
     deal_analysis |-> deal_analysis,
     source |-> "real_scraping"]

\* an outcome of a completion call together with the reply it hands back
OutcomeReplies(outcomes, replies, wrong) ==
    UNION {{[outcome |-> o, reply |-> r] : r \in RepliesFor(o, replies, wrong)} : o \in outcomes}

\* the draws and replies one product's enrichment depends on
EnrichEnvs(product) ==
    [reviews : ReviewChoices(product),
     enh : {"ok", "unparsable", "timeout"},
     rev : OutcomeReplies({"ok", "unparsable", "wrong_shape"}, ReviewReplies, ReviewWrongShapes),
     deal : OutcomeReplies({"ok", "unparsable", "wrong_shape"}, DealReplies, DealWrongShapes)]

\* lines 55-88: the body of the loop for one candidate
EnrichProduct(cache, product, env) ==
    LET details == GetProductDetails(cache, product.id, env.reviews)
        review == AnalyzeProductReviews(details, env.rev.outcome, env.rev.reply)
        deal == AnalyzeProductForDeals(details, env.deal.outcome, env.deal.reply)
        made == <<"get_product_details">>
                \o (IF IsFound(details) THEN <<"completion">> ELSE <<>>)
                \o <<"analyze_product_reviews">>
                \o (IF review.called_ai THEN <<"completion">> ELSE <<>>)
                \o (IF review.raised THEN <<>>
                    ELSE <<"_analyze_product_for_deals">>
                         \o (IF deal.called_ai THEN <<"completion">> ELSE <<>>))
        went == (IF IsFound(details) THEN FaultOf(env.enh) ELSE {})
                \cup (IF review.called_ai THEN FaultOf(env.rev.outcome) ELSE {})
                \cup (IF ~review.raised /\ deal.called_ai THEN FaultOf(env.deal.outcome) ELSE {})
                \cup (IF review.raised \/ deal.raised THEN {"enrichment"} ELSE {})
    IN  [entry |-> IF review.raised \/ deal.raised
                   THEN Placeholder(product)
                   ELSE Enhanced(product, details, review.value, deal.value),
         raised |-> review.raised \/ deal.raised,
         calls |-> made,
         faults |-> went]

\* a faulty variant: enhanced_products.insert(0, ...)
PrependEntry(entries, e) == <<e>> \o entries

\* enhanced_products.append (lines 72 and 77)
AppendEntry(entries, e) == Append(entries, e)

\* a faulty variant: "if len(products) < 2"
NoProductsAtMostOne(found) == Len(found) <= 1

\* line 32: if not products
NoProducts(found) == found = <<>>

(***************************************************************************)
(* compare_products and get_detailed_product_info (one step each).         *)
(***************************************************************************)
\* the ids a request may name: catalogue ids and two unknown ones
UnknownIds == {0, NumDbProducts + 1}

IdLists ==
    {<<>>, <<1>>, <<1, 2>>, <<0>>, <<0, NumDbProducts + 1>>, <<1, 0>>, <<1, 2, 3>>}

\* the calls one get_product_details makes
DetailCalls(details) ==
    <<"get_product_details">> \o (IF IsFound(details) THEN <<"completion">> ELSE <<>>)

RECURSIVE FlattenCalls(_)
FlattenCalls(ss) == IF ss = <<>> THEN <<>> ELSE ss[1] \o FlattenCalls(SubSeq(ss, 2, Len(ss)))

\* compare_products.  env = [reviews, enh, review_task, deal_task, summary].
\* Lines 126-129 keep every details dict that is true, and the error dict of
\* an unknown id is.  Lines 139-140 name two methods that neither agent
\* defines: building the task list raises AttributeError before any task
\* starts, and the handler of line 159 answers.
CompareProducts(cache, ids, env) ==
    LET fetched == [k \in 1..Len(ids) |-> GetProductDetails(cache, ids[k], env.reviews)]
        product_details == SelectSeqBy(fetched, [k \in 1..Len(ids) |-> Truthy(fetched[k])])
        fetch_calls == FlattenCalls([k \in 1..Len(ids) |-> DetailCalls(fetched[k])])
        fetch_faults == IF \E k \in 1..Len(ids) : IsFound(fetched[k])
                        THEN FaultOf(env.enh) ELSE {}
        has_tasks == /\ "compare_review_sentiments" \in ReviewAnalyzerMethods
                     /\ "compare_deals" \in DealFinderMethods
    IN  IF Len(product_details) < 2
        THEN [result |-> TooFewProducts, calls |-> fetch_calls, faults |-> fetch_faults,
              tasks_started |-> FALSE]
        ELSE IF ~has_tasks
        THEN [result |-> CompareErrorResult("AttributeError"), calls |-> fetch_calls,
              faults |-> fetch_faults \cup {"raised"}, tasks_started |-> FALSE]
        ELSE [result |->
                [type |-> "product_comparison",
                 response |-> IF env.summary = "ok" THEN "text" ELSE "",
                 products |-> product_details,
                 review_analysis |-> IF env.review_task = "ok"
                                     THEN [shape |-> "dict", empty |-> FALSE] ELSE EmptyDict,
                 deal_analysis |-> IF env.deal_task = "ok"
                                   THEN [shape |-> "dict", empty |-> FALSE] ELSE EmptyDict],
              calls |-> fetch_calls \o <<"compare_review_sentiments", "compare_deals",
                                         "completion">>,
              faults |-> fetch_faults \cup FaultOf(env.summary)
                         \cup (IF env.review_task = "ok" /\ env.deal_task = "ok"
                               THEN {} ELSE {"raised"}),
              tasks_started |-> TRUE]

CompareEnvs ==
    [reviews : {[k \in 1..MinReviews |-> 40]},
     enh : {"ok", "unparsable"},
     review_task : {"ok", "raise"},
     deal_task : {"ok", "raise"},
     summary : {"ok", "unparsable"}]

\* get_detailed_product_info.  Line 172 only creates the coroutine of
\* get_product_details; line 173 then names a method the review agent does
\* not define, so AttributeError is raised before anything is awaited and the
\* handler of line 199 answers.
GetDetailedProductInfo(cache, id, env) ==
    LET has_tasks == /\ "analyze_reviews" \in ReviewAnalyzerMethods
                     /\ "find_deals" \in DealFinderMethods
        product_details == GetProductDetails(cache, id, env.reviews)
    IN  IF ~has_tasks
        THEN [result |-> DetailsErrorResult("AttributeError"), calls |-> <<>>,
              faults |-> {"raised"}]
        ELSE IF ~Truthy(product_details)
        THEN [result |-> ProductNotFound,
              calls |-> DetailCalls(product_details) \o <<"analyze_reviews", "find_deals">>,
              faults |-> {}]
        ELSE [result |->
                [type |-> "detailed_product_info",
                 response |-> IF env.summary = "ok" THEN "text" ELSE "",
                 product |-> product_details,
                 review_analysis |-> IF env.review_task = "ok"
                                     THEN [shape |-> "dict", empty |-> FALSE] ELSE EmptyDict,
                 deals |-> <<>>],
              calls |-> DetailCalls(product_details)
                        \o <<"analyze_reviews", "find_deals", "completion">>,
              faults |-> FaultOf(env.summary)
                         \cup (IF env.review_task = "ok" /\ env.deal_task = "ok"
                               THEN {} ELSE {"raised"})]

(***************************************************************************)
(* State.                                                                  *)
(***************************************************************************)
VARIABLES
    product_cache,      \* ProductSearchAgent.product_cache, in insertion order
    search_cache,       \* FastProductDatabase.search_cache
    pc,                 \* "idle", "parse", "search", "enrich", "respond", "done"
    op,                 \* the entry point the caller invoked
    flow,               \* the coordinator method that is producing the result
    request,            \* the arguments of the call
    intent_analysis,    \* handle_follow_up: the parsed classification
    parsed_query,       \* process_user_query: parsed_query
    products,           \* process_user_query: products (the ranked list)
    enhanced_products,  \* process_user_query: enhanced_products
    calls,              \* the collaborator calls made by the request so far
    faults,             \* what went wrong during the request (see FaultOf)
    failed,             \* process_user_query: the candidates (by position) whose
                        \* enrichment raised
    result,             \* the value returned to the caller (for the stream: the
                        \* data of its 'final' event)
    events,             \* generate_search_stream: the types of the events emitted
    http_status,        \* the status of the HTTP answer, 0 for a direct call
    fn,                 \* one call of a single function on its own (_filter_products,
                        \* _rank_products, _fallback_analysis, ...): the arguments
                        \* and, once returned, the value
    searches            \* the search_products calls in flight, by request

vars == <<product_cache, search_cache, pc, op, flow, request, intent_analysis,
          parsed_query, products, enhanced_products, calls, faults, failed, result,
          events, http_status, fn, searches>>

NoRequest == [ids |-> <<>>, has_parsed_query |-> FALSE]

\* the coordinator and its agents after construction, no request running
CoordinatorIdle ==
    /\ product_cache = <<>>
    /\ search_cache = <<>>
    /\ pc = "idle"
    /\ op = "none"
    /\ flow = "none"
    /\ request = NoRequest
    /\ intent_analysis = None
    /\ parsed_query = None
    /\ products = <<>>
    /\ enhanced_products = <<>>
    /\ calls = <<>>
    /\ faults = {}
    /\ failed = {}
    /\ events = <<>>
    /\ result = NoResult
    /\ http_status = 0

\* no call of a single function under way
NoCall == [name |-> "none"]

Init ==
    /\ CoordinatorIdle
    /\ fn = NoCall
    /\ searches = <<>>

Ready == pc = "idle"

\* one-step entry points end here
Finish(name, req, out) ==
    /\ pc' = "done"
    /\ op' = name
    /\ request' = req
    /\ calls' = out.calls
    /\ faults' = out.faults
    /\ result' = out.result
    /\ parsed_query' = None
    /\ products' = <<>>
    /\ enhanced_products' = <<>>
    /\ failed' = {}
    /\ events' = <<>>
    /\ UNCHANGED <<fn, searches, product_cache, search_cache>>

(***************************************************************************)
(* generate_search_stream (main.py): the steps of process_user_query with  *)
(* an event before and after each, and its own final payloads.             *)
(***************************************************************************)
Streaming == op = "generate_search_stream"

\* main.py:108-112
StreamNoProductsFound ==
    [type |-> "no_products_found",
     message |-> "I couldn't find any products matching your criteria."]

\* main.py:190-194
StreamErrorResult(exc) ==
    [type |-> "error",
     message |-> "I encountered an error while searching. Please try again.",
     error |-> exc]

\* main.py:152-163
StreamPlaceholder(product) ==
    [origin |-> product.id,
     base |-> [kind |-> "product", product |-> product],
     review_analysis |-> [overall_sentiment |-> "neutral",
                          review_summary |-> "Analysis unavailable"],
     deal_analysis |-> [kind |-> "placeholder", deal_type |-> "standard_pricing",
                        value_assessment |-> "Price information available"],
     source |-> "basic_search"]

\* the handler that answers an exception of the body: coordinator_agent.py:106
\* for process_user_query, main.py:188 for the stream
ErrorResult(exc) == IF Streaming THEN StreamErrorResult(exc) ELSE PuqErrorResult(exc)

\* main.py:92
StartEvents == <<"process">>
\* main.py:97 and 101
UnderstoodEvents == <<"process", "process">>
\* main.py:107-108
NoProductsEvents == <<"error", "final">>
\* main.py:115
FoundEvents == <<"process">>
\* main.py:124 and 145 or 149
AnalyzedEvents == <<"process", "process">>
\* main.py:168 and 186
RespondEvents == <<"process", "final">>

\* a faulty variant: the handler reports the error without a final event
ErrorEventsNoFinal == <<"error">>

\* main.py:189-190
ErrorEvents == <<"error", "final">>

\* the call of generate_search_stream, up to its first event
GenerateSearchStream ==
    /\ Ready
    /\ pc' = "parse"
    /\ op' = "generate_search_stream"
    /\ flow' = "generate_search_stream"
    /\ request' = NoRequest
    /\ intent_analysis' = None
    /\ parsed_query' = None
    /\ products' = <<>>
    /\ enhanced_products' = <<>>
    /\ calls' = <<>>
    /\ faults' = {}
    /\ failed' = {}
    /\ events' = StartEvents
    /\ result' = NoResult
    /\ http_status' = 0
    /\ UNCHANGED <<fn, searches, product_cache, search_cache>>

(***************************************************************************)
(* process_user_query, one await point at a time.                          *)
(***************************************************************************)
\* the call of process_user_query (line 19)
ProcessUserQuery ==
    /\ Ready
    /\ pc' = "parse"
    /\ op' = "process_user_query"
    /\ flow' = "process_user_query"
    /\ request' = NoRequest
    /\ intent_analysis' = None
    /\ parsed_query' = None
    /\ products' = <<>>
    /\ enhanced_products' = <<>>
    /\ calls' = <<>>
    /\ faults' = {}
    /\ failed' = {}
    /\ events' = <<>>
    /\ result' = NoResult
    /\ http_status' = 0
    /\ UNCHANGED <<fn, searches, product_cache, search_cache>>

\* lines 26-27: parse_query returns what parse_json_response returns;
\* parsed_query.get raises AttributeError when that is no dict
ParseQuery ==
    /\ pc = "parse"
    /\ \E o \in CompletionOutcomes :
       \E reply \in RepliesFor(o, QueryReplies, QueryWrongShapes) :
          LET pq == ParseJsonResponse(o, reply)
          IN  /\ parsed_query' = pq
              /\ calls' = calls \o <<"parse_query", "completion">>
              /\ faults' = faults \cup FaultOf(o) \cup (IF IsDict(pq) THEN {} ELSE {"raised"})
              /\ IF IsDict(pq)
                 THEN /\ pc' = "search"
                      /\ result' = result
                      /\ events' = IF Streaming THEN events \o UnderstoodEvents ELSE events
                 ELSE /\ pc' = "done"
                      /\ result' = ErrorResult("AttributeError")
                      /\ events' = IF Streaming THEN events \o ErrorEvents ELSE events
    /\ UNCHANGED <<fn, searches, product_cache, search_cache, op, flow, request, intent_analysis,
                   products, enhanced_products, failed, http_status>>

SearchEnvs ==
    [db : {"ok", "raise"}, draw : FallbackDraws,
     rank : CompletionOutcomes, style : RankStyles, elapsed : ElapsedChoices]

\* lines 30-46
Search ==
    /\ pc = "search"
    /\ \E env \in SearchEnvs :
          LET r == SearchProducts(product_cache, search_cache, parsed_query, env)
              hit == BuildSearchQuery(parsed_query) \in CacheKeys(product_cache)
              went == (IF ~hit /\ env.db = "raise" THEN {"catalogue"} ELSE {})
                      \cup (IF r.ranked THEN FaultOf(env.rank) ELSE {})
                      \cup (IF r.raised THEN {"raised"} ELSE {})
          IN  /\ product_cache' = r.cache
              /\ search_cache' = r.dbcache
              /\ calls' = calls \o <<"search_products">>
                                \o (IF hit THEN <<>> ELSE <<"fast_db.search_products">>)
                                \o (IF r.ranked THEN <<"_rank_products", "completion">>
                                    ELSE <<>>)
              /\ faults' = faults \cup went
              /\ IF r.raised
                 THEN /\ products' = <<>>
                      /\ pc' = "done"
                      /\ result' = ErrorResult(r.exc)
                      /\ events' = IF Streaming THEN events \o ErrorEvents ELSE events
                 ELSE /\ products' = r.products
                      /\ IF NoProducts(r.products)
                         THEN /\ pc' = "done"
                              /\ result' = IF Streaming THEN StreamNoProductsFound
                                            ELSE NoProductsFound(parsed_query)
                              /\ events' = IF Streaming THEN events \o NoProductsEvents
                                            ELSE events
                         ELSE /\ pc' = "enrich"
                              /\ result' = result
                              /\ events' = IF Streaming THEN events \o FoundEvents
                                            ELSE events
    /\ UNCHANGED <<fn, searches, op, flow, request, intent_analysis, parsed_query,
                   enhanced_products,
                   failed, http_status>>

\* lines 49-88: one iteration of the loop over products[:3]
Enrich ==
    /\ pc = "enrich"
    /\ LET top_products == Take(products, TopN)
           i == Len(enhanced_products) + 1
       IN  \E env \in EnrichEnvs(top_products[i]) :
              LET e == EnrichProduct(product_cache, top_products[i], env)
                  entry == IF Streaming /\ e.raised
                           THEN StreamPlaceholder(top_products[i]) ELSE e.entry
              IN  /\ enhanced_products' = AppendEntry(enhanced_products, entry)
                  /\ events' = IF Streaming THEN events \o AnalyzedEvents ELSE events
                  /\ calls' = calls \o e.calls
                  /\ faults' = faults \cup e.faults
                  /\ failed' = IF e.raised THEN failed \cup {i} ELSE failed
                  /\ pc' = IF i = Len(top_products) THEN "respond" ELSE "enrich"
    /\ UNCHANGED <<fn, searches, product_cache, search_cache, op, flow, request, intent_analysis,
                   parsed_query, products, result, http_status>>

\* lines 92-104: generate_response returns "" when the client fails
Respond ==
    /\ pc = "respond"
    /\ \E o \in {"ok", "unparsable"} :
          /\ calls' = calls \o <<"_generate_comprehensive_response", "completion">>
          /\ faults' = faults \cup FaultOf(o)
          /\ result' = [type |-> "product_recommendations",
                        response |-> IF o = "ok" THEN "text" ELSE "",
                        products |-> enhanced_products,
                        total_products_found |-> Len(products),
                        parsed_query |-> parsed_query,
                        additional_products |->
                            IF Len(products) > TopN THEN Drop(products, TopN) ELSE <<>>,
                        data_source |-> "real_web_scraping"]
    /\ events' = IF Streaming THEN events \o RespondEvents ELSE events
    /\ pc' = "done"
    /\ UNCHANGED <<fn, searches, product_cache, search_cache, op, flow, request, intent_analysis,
                   parsed_query, products, enhanced_products, failed, http_status>>

(***************************************************************************)
(* compare_products, get_detailed_product_info, the /compare endpoint.     *)
(***************************************************************************)
\* a direct call of CoordinatorAgent.compare_products
CompareProductsCall ==
    /\ Ready
    /\ \E ids \in IdLists, env \in CompareEnvs :
          /\ Finish("compare_products", [ids |-> ids, has_parsed_query |-> FALSE],
                    CompareProducts(product_cache, ids, env))
    /\ flow' = "compare_products"
    /\ intent_analysis' = None
    /\ http_status' = 0

\* a direct call of CoordinatorAgent.get_detailed_product_info
GetDetailedProductInfoCall ==
    /\ Ready
    /\ \E id \in {1} \cup UnknownIds, env \in CompareEnvs :
          /\ Finish("get_detailed_product_info", [ids |-> <<id>>, has_parsed_query |-> FALSE],
                    GetDetailedProductInfo(product_cache, id, env))
    /\ flow' = "get_detailed_product_info"
    /\ intent_analysis' = None
    /\ http_status' = 0

\* main.py compare_products: the HTTPException(400) of line 234 is raised
\* inside the try of line 232 and caught by "except Exception" of line 239,
\* which raises HTTPException(500); otherwise the coordinator's result is
\* returned with status 200
CompareEndpoint ==
    /\ Ready
    /\ \E ids \in IdLists, env \in CompareEnvs :
          IF Len(ids) < 2
          THEN /\ Finish("POST /compare", [ids |-> ids, has_parsed_query |-> FALSE],
                         [result |-> NoResult, calls |-> <<>>, faults |-> {}])
               /\ flow' = "none"
               /\ http_status' = 500
          ELSE /\ Finish("POST /compare", [ids |-> ids, has_parsed_query |-> FALSE],
                         CompareProducts(product_cache, ids, env))
               /\ flow' = "compare_products"
               /\ http_status' = 200
    /\ intent_analysis' = None

(***************************************************************************)
(* handle_follow_up.                                                       *)
(***************************************************************************)
Intents ==
    {"compare_products", "get_details", "find_alternatives", "clarify_requirements",
     "ask_about_deals"}

EntityChoices == {<<>>, <<1>>, <<1, 2>>, <<0, NumDbProducts + 1>>}

\* classifications that follow the prompt, with and without the key "intent"
\* the entities of a find_alternatives reply are never read (lines 313-316):
\* one choice of them is kept
IntentReplies ==
    {[shape |-> "dict", empty |-> FALSE, intent |-> i, entities |-> e] :
        i \in (Intents \ {"find_alternatives"}) \cup {"something_else"},
        e \in EntityChoices}
    \cup {[shape |-> "dict", empty |-> FALSE, intent |-> "find_alternatives",
           entities |-> <<>>]}
    \cup {[shape |-> "dict", empty |-> FALSE, entities |-> e] : e \in EntityChoices}

IntentWrongShapes == {JsonList}

\* a faulty variant: "if len(product_ids) >= 1"
EnoughToCompareOne(product_ids) == Len(product_ids) >= 1

\* line 305
EnoughToCompare(product_ids) == Len(product_ids) >= 2

\* lines 319-327
FollowUpResponse(o, previous_context) ==
    [type |-> "follow_up_response",
     response |-> IF o = "ok" THEN "text" ELSE "",
     context |-> previous_context]

\* lines 299-334.  The call of process_user_query (line 316) continues at
\* ParseQuery; every other branch ends the request in this step.
HandleFollowUp ==
    /\ Ready
    /\ \E o \in CompletionOutcomes, has_pq \in BOOLEAN, env \in CompareEnvs :
       \E reply \in RepliesFor(o, IntentReplies, IntentWrongShapes) :
          LET ia == ParseJsonResponse(o, reply)
              req == [ids |-> Get(ia, "entities", <<>>), has_parsed_query |-> has_pq]
              intent == Get(ia, "intent", "clarify_requirements")
              product_ids == Get(ia, "entities", <<>>)
              first == <<"completion">>
              add(out) == [out EXCEPT !.calls = first \o @, !.faults = FaultOf(o) \cup @]
          IN  /\ intent_analysis' = ia
              /\ http_status' = 0
              /\ IF ~IsDict(ia)
                 THEN /\ Finish("handle_follow_up", req,
                                [result |-> FollowUpErrorResult("AttributeError"),
                                 calls |-> first, faults |-> FaultOf(o) \cup {"raised"}])
                      /\ flow' = "handle_follow_up"
                 ELSE IF intent = "compare_products" /\ EnoughToCompare(product_ids)
                 THEN /\ Finish("handle_follow_up", req,
                                add(CompareProducts(product_cache, product_ids, env)))
                      /\ flow' = "compare_products"
                 ELSE IF intent = "get_details" /\ product_ids # <<>>
                 THEN /\ Finish("handle_follow_up", req,
                                add(GetDetailedProductInfo(product_cache, product_ids[1], env)))
                      /\ flow' = "get_detailed_product_info"
                 ELSE IF intent = "find_alternatives" /\ has_pq
                 THEN /\ pc' = "parse"
                      /\ op' = "handle_follow_up"
                      /\ flow' = "process_user_query"
                      /\ request' = req
                      /\ calls' = first
                      /\ faults' = FaultOf(o)
                      /\ result' = NoResult
                      /\ parsed_query' = None
                      /\ products' = <<>>
                      /\ enhanced_products' = <<>>
                      /\ failed' = {}
                      /\ events' = <<>>
                      /\ UNCHANGED <<fn, searches, product_cache, search_cache>>
                 ELSE /\ Finish("handle_follow_up", req,
                                [result |-> FollowUpResponse(env.summary, has_pq),
                                 calls |-> first \o <<"completion">>,
                                 faults |-> FaultOf(o) \cup FaultOf(env.summary)])
                      /\ flow' = "handle_follow_up"

\* the caller has the result; the coordinator keeps nothing of the request
\* but the caches
Return ==
    /\ pc = "done"
    /\ pc' = "idle"
    /\ op' = "none"
    /\ flow' = "none"
    /\ request' = NoRequest
    /\ intent_analysis' = None
    /\ parsed_query' = None
    /\ products' = <<>>
    /\ enhanced_products' = <<>>
    /\ calls' = <<>>
    /\ faults' = {}
    /\ failed' = {}
    /\ events' = <<>>
    /\ result' = NoResult
    /\ http_status' = 0
    /\ UNCHANGED <<fn, searches, product_cache, search_cache>>

Next ==
    \/ ProcessUserQuery
    \/ GenerateSearchStream
    \/ ParseQuery
    \/ Search
    \/ Enrich
    \/ Respond
    \/ CompareProductsCall
    \/ GetDetailedProductInfoCall
    \/ CompareEndpoint
    \/ HandleFollowUp
    \/ Return

Spec == Init /\ [][Next]_vars

(***************************************************************************)
(* Single functions called on their own, on inputs that the catalogue of   *)
(* the model does not produce (ratings below 3.5, brands, equal sort keys,  *)
(* review lists of every mix, value ratings outside 1-10).                  *)
(***************************************************************************)
\* longest list handed to the two functions
MaxFnLen == 2

request_vars ==
    <<pc, op, flow, request, intent_analysis, parsed_query, products, enhanced_products,
      calls, faults, failed, result, events, http_status>>

SeqsUpTo(S, n) == UNION {[1..k -> S] : k \in 0..n}

\* each product takes its position as id
Numbered(s) == [k \in 1..Len(s) |-> [id |-> k] @@ s[k]]

FnFilterLists ==
    {Numbered(s) :
        s \in SeqsUpTo([price : {10000, 30000}, rating : {34, 35},
                        brand : {"acme", "other"}], MaxFnLen)}

FnQueries ==
    [shape : {"dict"}, empty : {FALSE}, budget_null : {FALSE},
     budget_max : {0, 20000}, budget_min : {0, 20000},
     brand_preferences : {<<>>, <<"acme">>}]

\* review counts of 6000 and 7000 give the same sort key (the cap of 5)
FnRankLists ==
    {Numbered(s) :
        s \in SeqsUpTo([rating : {40, 45}, review_count : {1000, 6000, 7000}], MaxFnLen)}

FnFilterCalls ==
    [name : {"_filter_products"}, state : {"called"}, products : FnFilterLists,
     query_data : FnQueries, out : {<<>>}]

FnRankCalls ==
    {c \in [name : {"_rank_products"}, state : {"called"}, products : FnRankLists,
            rank : CompletionOutcomes, style : RankStyles, elapsed : ElapsedChoices,
            out : {<<>>}] :
        c.rank # "ok" => c.style = "reverse"}

\* longest review list handed to _fallback_analysis
MaxReviews == 6

\* review ratings on both sides of the limits of lines 99-100 (4 and 2 stars)
FnFallbackCalls ==
    [name : {"_fallback_analysis"}, state : {"called"},
     reviews : SeqsUpTo({20, 30, 40}, MaxReviews), out : {<<>>}]

\* review ratings as _generate_realistic_reviews rounds them: whole stars and
\* tenths such as 4.3
FnReviewLists == SeqsUpTo({20, 40, 43}, MaxFnLen)

FnStatsCalls ==
    [name : {"_calculate_review_stats"}, state : {"called"},
     reviews : FnReviewLists, out : {<<>>}]

FnAnalyzeCalls ==
    [name : {"analyze_product_reviews"}, state : {"called"},
     reviews : FnReviewLists,
     rev : OutcomeReplies(CompletionOutcomes \ {"timeout"}, ReviewReplies, ReviewWrongShapes),
     out : {<<>>}]

\* value_rating of a reply: the prompt asks for 1-10, nothing enforces it
FnDealReplies ==
    {[shape |-> "dict", empty |-> FALSE, value_rating |-> v, numeric |-> TRUE,
      recommendation |-> "consider"] : v \in {0 - 200, 0 - 1, 5, 11, 100}}

FnDealProducts ==
    [id : {1}, price : {0, 10000}, rating : {0 - 10, 0, 45, 60},
     review_count : {0, 1000, 5000}]

FnDealCalls ==
    [name : {"_analyze_product_for_deals"}, state : {"called"},
     product : FnDealProducts,
     deal : OutcomeReplies(CompletionOutcomes \ {"timeout"}, FnDealReplies, DealWrongShapes),
     out : {<<>>}]

InitFn ==
    /\ CoordinatorIdle
    /\ searches = <<>>
    /\ fn \in FnFilterCalls \cup FnRankCalls \cup FnFallbackCalls \cup FnStatsCalls
               \cup FnAnalyzeCalls \cup FnDealCalls

\* _filter_products returns
FilterProductsCall ==
    /\ fn.name = "_filter_products"
    /\ fn.state = "called"
    /\ fn' = [fn EXCEPT !.state = "returned",
                        !.out = FilterProducts(fn.products, fn.query_data).products]
    /\ UNCHANGED <<request_vars, product_cache, search_cache, searches>>

\* _rank_products returns
RankProductsCall ==
    /\ fn.name = "_rank_products"
    /\ fn.state = "called"
    /\ fn' = [fn EXCEPT !.state = "returned",
                        !.out = RankProducts(fn.products, WaitFor(fn.rank, fn.elapsed),
                                    RankReplyFor(WaitFor(fn.rank, fn.elapsed), fn.style,
                                                 Len(fn.products)))]
    /\ UNCHANGED <<request_vars, product_cache, search_cache, searches>>

\* _fallback_analysis returns
FallbackAnalysisCall ==
    /\ fn.name = "_fallback_analysis"
    /\ fn.state = "called"
    /\ fn' = [fn EXCEPT !.state = "returned", !.out = FallbackAnalysis(fn.reviews)]
    /\ UNCHANGED <<request_vars, product_cache, search_cache, searches>>

\* _calculate_review_stats returns or raises
CalculateReviewStatsCall ==
    /\ fn.name = "_calculate_review_stats"
    /\ fn.state = "called"
    /\ fn' = [fn EXCEPT !.state = "returned", !.out = CalculateReviewStats(fn.reviews)]
    /\ UNCHANGED <<request_vars, product_cache, search_cache, searches>>

\* analyze_product_reviews returns or raises
AnalyzeProductReviewsCall ==
    /\ fn.name = "analyze_product_reviews"
    /\ fn.state = "called"
    /\ fn' = [fn EXCEPT !.state = "returned",
                        !.out = AnalyzeProductReviews([reviews |-> fn.reviews],
                                    fn.rev.outcome, fn.rev.reply)]
    /\ UNCHANGED <<request_vars, product_cache, search_cache, searches>>

\* _analyze_product_for_deals returns or raises
AnalyzeProductForDealsCall ==
    /\ fn.name = "_analyze_product_for_deals"
    /\ fn.state = "called"
    /\ fn' = [fn EXCEPT !.state = "returned",
                        !.out = AnalyzeProductForDeals(
                                    [kind |-> "details", product |-> fn.product,
                                     reviews |-> <<>>],
                                    fn.deal.outcome, fn.deal.reply)]
    /\ UNCHANGED <<request_vars, product_cache, search_cache, searches>>

NextFn ==
    \/ AnalyzeProductForDealsCall
    \/ FilterProductsCall
    \/ RankProductsCall
    \/ FallbackAnalysisCall
    \/ CalculateReviewStatsCall
    \/ AnalyzeProductReviewsCall

SpecFn == InitFn /\ [][NextFn]_vars

(***************************************************************************)
(* search_products requests running side by side.  A request gives up the   *)
(* event loop at "await asyncio.to_thread(fast_db.search_products, ...)"    *)
(* (product_search_agent.py:30-34); the catalogue search runs in a worker   *)
(* thread, where its cache test (line 262) and its cache write (line 282)   *)
(* are separated by time.sleep.  get_product_details reads the cache        *)
(* between any two of these steps.                                          *)
(***************************************************************************)
\* search_products requests in flight at once
MaxRequests == 2

RaceQueries ==
    {[shape |-> "dict", empty |-> FALSE, product_type |-> t,
      budget_null |-> FALSE, budget_max |-> m, budget_min |-> 0] :
        t \in {"laptop", "smartphone"}, m \in {0, 15000}}

\* outcomes of the ranking call of a request
RaceRankOutcomes == {"ok", "unparsable"}

\* ids asked of get_product_details: one of the catalogue, an unknown one
RaceDetailIds == {1, 0}

\* the draws of the generated fallback of a request
RaceDraws == {[pct |-> 80, rating |-> 38]}

InitRace ==
    /\ CoordinatorIdle
    /\ fn = NoCall
    /\ searches = <<>>

\* lines 19-26: the request arrives, builds its key and tests the cache
SrCall ==
    /\ Len(searches) < MaxRequests
    /\ \E query_data \in RaceQueries :
          LET key == BuildSearchQuery(query_data)
              hit == key \in CacheKeys(product_cache)
          IN  searches' = Append(searches,
                  [pc |-> IF hit THEN "filter" ELSE "thread",
                   query_data |-> query_data,
                   key |-> key,
                   missed |-> ~hit,
                   wrote |-> FALSE,
                   found |-> <<>>,
                   candidates |-> IF hit THEN CacheGet(product_cache, key) ELSE <<>>,
                   out |-> <<>>])
    /\ UNCHANGED <<request_vars, fn, product_cache, search_cache>>

\* fast_product_database.py:258-263: the worker thread tests the catalogue's
\* cache and returns the cached list on a hit
DbCheck ==
    \E i \in 1..Len(searches) :
        /\ searches[i].pc = "thread"
        /\ searches' = [searches EXCEPT ![i] =
               IF searches[i].key \in DOMAIN search_cache
               THEN [@ EXCEPT !.pc = "resume",
                              !.found = Take(search_cache[searches[i].key], MaxProducts)]
               ELSE [@ EXCEPT !.pc = "compute"]]
        /\ UNCHANGED <<request_vars, fn, product_cache, search_cache>>

\* fast_product_database.py:266-284: after the sleep the thread scores, sorts,
\* writes the catalogue's cache and returns
DbStore ==
    \E i \in 1..Len(searches) :
        /\ searches[i].pc = "compute"
        /\ LET matched == DbMatched(searches[i].key)
           IN  /\ search_cache' = DbCacheWrite(search_cache, searches[i].key, matched)
               /\ searches' = [searches EXCEPT ![i] =
                      [@ EXCEPT !.pc = "resume", !.found = Take(matched, MaxProducts)]]
        /\ UNCHANGED <<request_vars, fn, product_cache>>

\* lines 43-45: the catalogue search raised; the request goes on with the
\* generated products and caches nothing
DbRaise ==
    \E i \in 1..Len(searches), draw \in RaceDraws :
        /\ searches[i].pc \in {"thread", "compute"}
        /\ searches' = [searches EXCEPT ![i] =
               [@ EXCEPT !.pc = "filter",
                         !.candidates = GenerateQuickFallback(searches[i].key, draw)]]
        /\ UNCHANGED <<request_vars, fn, product_cache, search_cache>>

\* lines 36-41: the request resumes with the thread's list and writes the cache
SrWrite ==
    \E i \in 1..Len(searches) :
        /\ searches[i].pc = "resume"
        /\ LET fresh == EnsureUniqueIds(searches[i].found)
           IN  /\ product_cache' = CacheWrite(product_cache, searches[i].key, fresh)
               /\ searches' = [searches EXCEPT ![i] =
                      [@ EXCEPT !.pc = "filter", !.wrote = TRUE, !.candidates = fresh]]
        /\ UNCHANGED <<request_vars, fn, search_cache>>

\* lines 47-54: filter, rank, return the top six
SrReturn ==
    \E i \in 1..Len(searches), rank \in RaceRankOutcomes :
        /\ searches[i].pc = "filter"
        /\ LET filtered == FilterProducts(searches[i].candidates, searches[i].query_data)
               ranked == RankProducts(filtered.products, rank,
                             RankReplyFor(rank, "reverse", Len(filtered.products)))
           IN  searches' = [searches EXCEPT ![i] =
                   [@ EXCEPT !.pc = "returned",
                             !.out = IF searches[i].candidates = <<>> THEN <<>>
                                     ELSE Take(ranked, ReturnTop)]]
        /\ UNCHANGED <<request_vars, fn, product_cache, search_cache>>

\* get_product_details, lines 236-251, between any two steps of the requests
SrGetProductDetails ==
    /\ \E id \in RaceDetailIds :
          fn' = [name |-> "get_product_details", id |-> id,
                 out |-> GetProductDetails(product_cache, id, <<>>)]
    /\ UNCHANGED <<request_vars, searches, product_cache, search_cache>>

NextRace ==
    \/ SrCall
    \/ DbCheck
    \/ DbStore
    \/ DbRaise
    \/ SrWrite
    \/ SrReturn
    \/ SrGetProductDetails

SpecRace == InitRace /\ [][NextRace]_vars

(***************************************************************************)
(* Properties.                                                             *)
(***************************************************************************)
CoordinatorOps ==
    {"process_user_query", "compare_products", "get_detailed_product_info",
     "handle_follow_up"}

Made(name) == \E k \in 1..Len(calls) : calls[k] = name

\* process_user_query has returned (called directly or by handle_follow_up)
SearchDone == pc = "done" /\ flow = "process_user_query"

\* search_products was called and returned a list
SearchReturned == Made("search_products") /\ "raised" \notin faults

\* the ids of a request that name a product of the cache or the catalogue
Resolved(ids) == {k \in 1..Len(ids) : IsFound(GetProductDetails(product_cache, ids[k], <<>>))}

\* C1: process_user_query returns 'no_products_found' exactly when
\* search_products returned an empty list, and then made no detail, review,
\* deal or summary call; when search_products returned a non-empty list and no
\* exception reached the outer handler the type is 'product_recommendations'.
C1_NoProductsFound ==
    SearchDone =>
        /\ (result.type = "no_products_found") <=> (SearchReturned /\ products = <<>>)
        /\ (result.type = "no_products_found") =>
              /\ ~Made("get_product_details")
              /\ ~Made("analyze_product_reviews")
              /\ ~Made("_analyze_product_for_deals")
              /\ ~Made("_generate_comprehensive_response")
        /\ (SearchReturned /\ products # <<>>) => result.type = "product_recommendations"

\* a search whose catalogue hits were all filtered out ended in no_products_found
C1_Witness ==
    /\ SearchDone
    /\ result.type = "no_products_found"
    /\ product_cache # <<>>
    /\ ~Made("_rank_products")

\* C2 (as stated): after any failure of any collaborator call, the entry point
\* returns a result of type 'error' with a message and the error description.
C2_AnyFailureIsError ==
    (pc = "done" /\ op \in CoordinatorOps /\ faults # {}) =>
        /\ result.type = "error"
        /\ "message" \in DOMAIN result
        /\ "error" \in DOMAIN result

\* C2 (amended): every entry point returns a result, and when an exception
\* reaches the entry point's outermost handler that result has type 'error'
\* with a message and the error description; a failure absorbed below that
\* handler (a completion fallback, a candidate's enrichment) does not.
C2_TopLevelFailureIsError ==
    (pc = "done" /\ op \in CoordinatorOps) =>
        /\ result # NoResult
        /\ "type" \in DOMAIN result
        /\ ("raised" \in faults) =>
              /\ result.type = "error"
              /\ "message" \in DOMAIN result
              /\ "error" \in DOMAIN result
        /\ ("raised" \notin faults /\ result.type = "error") =>
              result \in {TooFewProducts, ProductNotFound}

\* process_user_query answered an exception of its own body
C2_Witness ==
    /\ pc = "done"
    /\ op = "process_user_query"
    /\ "raised" \in faults
    /\ result.type = "error"
    /\ result.error = "AttributeError"

\* C3: an enrichment that raises does not abort the batch: the result is
\* 'product_recommendations' with min(3, n) entries, the entry of a candidate
\* whose enrichment raised is the candidate with the neutral sentiment and the
\* standard_pricing deal, and every other entry is that candidate's own
\* enrichment.
C3_PlaceholderKeepsBatch ==
    (SearchDone /\ SearchReturned /\ products # <<>>) =>
        /\ result.type = "product_recommendations"
        /\ Len(result.products) = Min(3, Len(products))
        /\ \A i \in 1..Len(result.products) :
              LET e == result.products[i]
              IN  IF i \in failed
                  THEN /\ e.base = [kind |-> "product", product |-> products[i]]
                       /\ e.review_analysis.overall_sentiment = "neutral"
                       /\ e.deal_analysis.deal_type = "standard_pricing"
                  ELSE /\ e.base = GetProductDetails(product_cache, products[i].id,
                                                     Get(e.base, "reviews", <<>>))
                       /\ "review_summary" \notin DOMAIN e.review_analysis
                       /\ e.deal_analysis.kind \in {"deal", "none"}

\* the second of three candidates failed, the first and the third did not
C3_Witness ==
    /\ SearchDone
    /\ result.type = "product_recommendations"
    /\ Len(result.products) = 3
    /\ failed = {2}

\* C4: the i-th entry of 'products' is built from the i-th product of the
\* ranked list, whichever enrichments failed.
C4_OriginalOrder ==
    (SearchDone /\ result.type = "product_recommendations") =>
        /\ Len(result.products) = Min(3, Len(products))
        /\ \A i \in 1..Len(result.products) : result.products[i].origin = products[i].id

\* three distinct candidates, the first one failed, the last one did not
C4_Witness ==
    /\ SearchDone
    /\ result.type = "product_recommendations"
    /\ Len(result.products) = 3
    /\ products[1].id # products[3].id
    /\ failed = {1}

\* C5: when completion calls of a new search time out or return unparsable
\* content, the result is 'product_recommendations' or 'no_products_found',
\* never 'error'.
C5_CompletionFailureNeverError ==
    (SearchDone /\ "shape" \notin faults) =>
        result.type \in {"product_recommendations", "no_products_found"}

\* query parsing failed and the search still recommended products
C5_Witness ==
    /\ SearchDone
    /\ op = "process_user_query"
    /\ parsed_query = EmptyDict
    /\ "completion" \in faults
    /\ result.type = "product_recommendations"

\* C6 (as stated): compare_products with at least 2 resolved products returns
\* a 'product_comparison', whether or not a comparison sub-task failed.
C6_ComparisonSurvivesSubtask ==
    (pc = "done" /\ flow = "compare_products"
        /\ Cardinality(Resolved(request.ids)) >= 2) =>
        result.type = "product_comparison"

\* C7 (as stated): a comparison request with exactly 1 id is rejected with an
\* input error before any sub-task is started.
C7_OneIdRejectedFirst ==
    (pc = "done" /\ op \in {"compare_products", "POST /compare"}
        /\ Len(request.ids) = 1) =>
        /\ calls = <<>>
        /\ IF op = "POST /compare" THEN http_status = 400 ELSE result = TooFewProducts

\* C8 (as stated): with fewer than 2 ids that resolve to a product,
\* compare_products answers 'I need at least 2 products to make a comparison.'
C8_OnlyResolvedCount ==
    (pc = "done" /\ flow = "compare_products"
        /\ Cardinality(Resolved(request.ids)) < 2) =>
        result = TooFewProducts

\* C9 (as stated): get_detailed_product_info for an id of neither the cache nor
\* the catalogue answers type 'error' with 'Product not found.' and no payload.
C9_UnknownIdNotFound ==
    (pc = "done" /\ flow = "get_detailed_product_info"
        /\ Resolved(<<request.ids[1]>>) = {}) =>
        result = ProductNotFound

StreamDone == pc = "done" /\ Streaming

CountOf(s, x) == Cardinality({k \in 1..Len(s) : s[k] = x})

\* C11: on every path of generate_search_stream exactly one 'final' event is
\* emitted and it is the last one; while the stream runs none has been
\* emitted, so every 'process' and 'error' event precedes it.
C11_OneFinalLast ==
    Streaming =>
        IF pc = "done"
        THEN /\ CountOf(events, "final") = 1
             /\ events[Len(events)] = "final"
        ELSE CountOf(events, "final") = 0

\* the stream ended through its exception handler
C11_Witness ==
    /\ StreamDone
    /\ result.type = "error"
    /\ Len(events) >= 2
    /\ events[Len(events) - 1] = "error"
    /\ events[Len(events)] = "final"

\* what process_user_query returns for the query and the collaborator outcomes
\* of the stream that has ended
DirectResult ==
    CASE result.type = "no_products_found" -> NoProductsFound(parsed_query)
      [] result.type = "error" -> PuqErrorResult(result.error)
      [] OTHER ->
            [result EXCEPT !.products =
                [i \in 1..Len(result.products) |->
                    IF i \in failed THEN Placeholder(products[i]) ELSE result.products[i]]]

\* C12 (as stated): the data of the 'final' event equals the result of
\* process_user_query for the same query and collaborator outcomes.
C12_FinalEqualsDirect == StreamDone => result = DirectResult

\* search_products has returned a list to process_user_query or to the stream
Searched ==
    /\ flow \in {"process_user_query", "generate_search_stream"}
    /\ pc \in {"enrich", "respond", "done"}
    /\ Made("search_products")
    /\ "raised" \notin faults

\* C13: with budget.max = M set, every product returned by search_products
\* costs at most M, whatever the origin of the candidate list (catalogue,
\* cache hit, generated fallback) and whatever the ranking.
C13_WithinBudget ==
    (Searched /\ Get(parsed_query, "budget_max", 0) # 0) =>
        \A k \in 1..Len(products) : products[k].price <= parsed_query.budget_max

\* a cache hit on a list cached unfiltered, holding a product above the budget
C13_Witness ==
    /\ Searched
    /\ ~Made("fast_db.search_products")
    /\ products # <<>>
    /\ Get(parsed_query, "budget_max", 0) = 15000
    /\ \E c \in 1..Len(product_cache) : \E k \in 1..Len(product_cache[c].products) :
          product_cache[c].products[k].price > 15000

\* C14 (as stated): the list returned by search_products never holds two
\* products with the same id, for every ranking reply that passes validation.
C14_NoDuplicateIds ==
    Searched =>
        \A i, j \in 1..Len(products) : i # j => products[i].id # products[j].id

\* C15 (as stated): when the completion call of parse_query fails or is
\* unparsable, the requirement returned has the product_type guessed from the
\* user's text ("laptop" for the requests of the model).
C15_KeywordFallback ==
    (pc = "search" /\ op \in {"process_user_query", "generate_search_stream"}
        /\ "completion" \in faults) =>
        Get(parsed_query, "product_type", "") = "laptop"

\* the draws of one enrichment in which every completion call fails
FailingEnvs(product) ==
    {e \in EnrichEnvs(product) :
        /\ e.enh = "unparsable"
        /\ e.rev.outcome = "unparsable"
        /\ e.deal.outcome = "unparsable"}

\* the review analysis (or the exception) of one run of get_product_details +
\* analyze_product_reviews
ReviewRun(product, env) ==
    AnalyzeProductReviews(GetProductDetails(product_cache, product.id, env.reviews),
                          env.rev.outcome, env.rev.reply)

\* the deal analysis of one run of get_product_details + _analyze_product_for_deals
DealRun(product, env) ==
    AnalyzeProductForDeals(GetProductDetails(product_cache, product.id, env.reviews),
                           env.deal.outcome, env.deal.reply)

\* C18 (as stated): two enrichments of the candidate at hand in which every
\* completion call fails give equal review analyses and equal deal analyses.
C18_FallbackIdempotent ==
    (pc = "enrich") =>
        LET product == products[Len(enhanced_products) + 1]
        IN  \A e1, e2 \in FailingEnvs(product) :
                /\ ReviewRun(product, e1) = ReviewRun(product, e2)
                /\ DealRun(product, e1) = DealRun(product, e2)

Returned(name) == fn.name = name /\ fn.state = "returned"

\* C19 (as stated): when the ranking call times out, fails or returns anything
\* but a list of integers, _rank_products returns the candidates by descending
\* rating*0.7 + min(review_count/1000, 5)*0.3, ties in input order, never the
\* order of the reply.
C19_FallbackOrder ==
    (Returned("_rank_products") /\ (fn.rank # "ok" \/ fn.elapsed > RankTimeout)) =>
        /\ Len(fn.out) = Len(fn.products)
        /\ \A k \in 1..Len(fn.products) : \E j \in 1..Len(fn.out) : fn.out[j] = fn.products[k]
        /\ \A i, j \in 1..Len(fn.out) :
              i < j => \/ RankKey(fn.out[i]) > RankKey(fn.out[j])
                       \/ RankKey(fn.out[i]) = RankKey(fn.out[j]) /\ fn.out[i].id < fn.out[j].id

\* C20: _filter_products returns exactly the products, in input order, whose
\* price is within budget.max and budget.min when those are set and whose
\* rating is at least 3.5; the brand preferences remove nothing.
C20_FilterExact ==
    Returned("_filter_products") =>
        LET q == fn.query_data
            passes(p) == /\ (q.budget_max = 0 \/ p.price <= q.budget_max)
                         /\ (q.budget_min = 0 \/ p.price >= q.budget_min)
                         /\ p.rating >= 35
        IN  /\ \A k \in 1..Len(fn.products) :
                  passes(fn.products[k]) <=> \E j \in 1..Len(fn.out) : fn.out[j] = fn.products[k]
            /\ \A j \in 1..Len(fn.out) : \E k \in 1..Len(fn.products) : fn.out[j] = fn.products[k]
            /\ \A i, j \in 1..Len(fn.out) : i < j => fn.out[i].id < fn.out[j].id

\* a product of another brand than the preferred one is kept, one with a
\* rating of 3.4 is dropped
C20_Witness ==
    /\ Returned("_filter_products")
    /\ fn.query_data.brand_preferences = <<"acme">>
    /\ Len(fn.products) = 2
    /\ Len(fn.out) = 1
    /\ fn.out[1].brand = "other"
    /\ \E k \in 1..2 : fn.products[k].rating = 34

IdsOf(ps) == [k \in 1..Len(ps) |-> ps[k].id]

BothWrote(i, j) ==
    /\ i # j
    /\ searches[i].key = searches[j].key
    /\ searches[i].missed /\ searches[j].missed
    /\ searches[i].wrote /\ searches[j].wrote

\* C16: the search-result cache of ProductSearchAgent (and the one of the
\* catalogue) is append-only: no step of search_products or
\* get_product_details removes a key that was present.
C16_AppendOnly ==
    [][/\ CacheKeys(product_cache) \subseteq CacheKeys(product_cache')
       /\ DOMAIN search_cache \subseteq DOMAIN search_cache']_vars

\* two requests have written two keys, both are cached, and
\* get_product_details has found a product
C16_Witness ==
    /\ Cardinality(CacheKeys(product_cache)) = 2
    /\ \A i \in 1..Len(searches) : searches[i].wrote /\ searches[i].pc = "returned"
    /\ fn # NoCall
    /\ IsFound(fn.out)

\* C17: when two requests with the same search phrase both miss the cache and
\* both write it, what each wrote and what the cache holds afterwards carry the
\* same product ids in the same order: both requests work on the same
\* candidate list.
C17_BenignRace ==
    \A i, j \in 1..Len(searches) :
        BothWrote(i, j) =>
            /\ IdsOf(searches[i].candidates) = IdsOf(searches[j].candidates)
            /\ IdsOf(CacheGet(product_cache, searches[i].key)) = IdsOf(searches[i].candidates)

\* both requests missed, both wrote, and both have returned
C17_Witness ==
    /\ Len(searches) = 2
    /\ BothWrote(1, 2)
    /\ searches[1].candidates # <<>>
    /\ searches[1].pc = "returned" /\ searches[2].pc = "returned"

CountIn(reviews, lo, hi) ==
    Cardinality({k \in 1..Len(reviews) : lo <= reviews[k] /\ reviews[k] <= hi})

\* C21 (as stated): analyze_product_reviews on a product with at least one
\* review, when the completion fails or returns unparsable content, returns
\* the fallback analysis: an overall_sentiment and the sentiment_breakdown
\* computed from the reviews rated >= 4, <= 2 and the rest.
C21_FallbackOnFailure ==
    (/\ Returned("analyze_product_reviews")
     /\ fn.reviews # <<>>
     /\ fn.rev.outcome = "unparsable"
     /\ ~fn.out.raised) =>
        /\ "overall_sentiment" \in DOMAIN fn.out.value.analysis
        /\ "sentiment_breakdown" \in DOMAIN fn.out.value.analysis
        /\ fn.out.value.analysis.sentiment_breakdown
              = FallbackAnalysis(fn.reviews).sentiment_breakdown

\* C22 (as stated): in the fallback analysis overall_sentiment is the class
\* with the strictly largest review count, and "neutral" when the largest
\* count is tied.
C22_MajorityClass ==
    Returned("_fallback_analysis") =>
        LET pos == CountIn(fn.reviews, 40, 50)
            neg == CountIn(fn.reviews, 0, 20)
            neu == Len(fn.reviews) - pos - neg
        IN  fn.out.overall_sentiment =
               (IF pos > neu /\ pos > neg THEN "positive"
                ELSE IF neg > neu /\ neg > pos THEN "negative"
                ELSE "neutral")

\* C23: for a non-empty review list the three percentages of the fallback
\* analysis sum to 99, 100 or 101; the breakdown returned for a product
\* without reviews sums to exactly 100.
C23_PercentagesSum ==
    /\ (Returned("_fallback_analysis") /\ fn.reviews # <<>>) =>
          SeqSum(fn.out.sentiment_breakdown) \in 99..101
    /\ (Returned("analyze_product_reviews") /\ fn.reviews = <<>>) =>
          SeqSum(fn.out.value.sentiment_breakdown) = 100

\* three reviews, one of each class: 33 + 33 + 33
C23_Witness ==
    /\ Returned("_fallback_analysis")
    /\ Len(fn.reviews) = 3
    /\ fn.out.sentiment_breakdown = <<33, 33, 33>>

\* C24 (as stated): every result of analyze_product_reviews carries the review
\* statistics, whether the completion succeeded or failed or the product has
\* no reviews.
C24_StatisticsAlways ==
    (Returned("analyze_product_reviews") /\ ~fn.out.raised) =>
        "review_statistics" \in DOMAIN fn.out.value

\* C28 (as stated): _calculate_review_stats does not raise for a review list
\* whose ratings lie in 1..5 stars, ratings such as 4.3 included.
C28_StatsNeverRaise ==
    Returned("_calculate_review_stats") => ~fn.out.raised

\* C25: whenever _analyze_product_for_deals returns an analysis, its deal_score
\* lies in 0..100 (here in tenths), for every rating, review count and numeric
\* value_rating of the reply and for the default value_rating of a failed
\* completion.
C25_DealScoreInRange ==
    (/\ Returned("_analyze_product_for_deals")
     /\ ~fn.out.raised
     /\ fn.out.value # None) =>
        /\ 0 <= fn.out.value.deal_score
        /\ fn.out.value.deal_score <= 1000

\* a reply with value_rating -200 is held at the floor of 0
C25_Witness ==
    /\ Returned("_analyze_product_for_deals")
    /\ ~fn.out.raised
    /\ fn.out.value # None
    /\ fn.deal.outcome = "ok"
    /\ fn.deal.reply.value_rating < 0
    /\ fn.out.value.deal_score = 0

Recommended == pc = "done" /\ result.type = "product_recommendations"

\* C26 (as stated): every entry of 'products' in a 'product_recommendations'
\* result carries the id and the base fields of the ranked candidate it was
\* built from, also when the candidates are the generated fallback products.
C26_EntriesKeepIdentity ==
    Recommended =>
        \A k \in 1..Len(result.products) :
            /\ "product" \in DOMAIN result.products[k].base
            /\ result.products[k].base.product.id = products[k].id
            /\ result.products[k].base.product.price = products[k].price

\* C27 (as stated): a search whose filter left candidates to rank never ends
\* as 'no_products_found', whatever the ranking call replies.
C27_RankingKeepsCandidates ==
    (pc = "done" /\ Made("_rank_products") /\ "raised" \notin faults) =>
        result.type # "no_products_found"

AllKnown(ids) == \A k \in 1..Len(ids) : ids[k] \in DbIds

\* C29 (as stated): get_detailed_product_info for an id of the catalogue, no
\* completion failing, returns a 'detailed_product_info' holding that product;
\* compare_products for two ids of the catalogue returns a
\* 'product_comparison'.
C29_KnownIdsAnswered ==
    (pc = "done" /\ AllKnown(request.ids) /\ faults \cap {"completion", "shape"} = {}) =>
        /\ (flow = "get_detailed_product_info" /\ Len(request.ids) = 1) =>
              /\ result.type = "detailed_product_info"
              /\ result.product.product.id = request.ids[1]
        /\ (flow = "compare_products" /\ Len(request.ids) = 2) =>
              result.type = "product_comparison"

\* C30 (as stated): a request rejected by input validation at an endpoint is
\* answered with status 400 and the coordinator is not called.
C30_ValidationIs400 ==
    (pc = "done" /\ op = "POST /compare" /\ Len(request.ids) < 2) =>
        /\ flow = "none"
        /\ calls = <<>>
        /\ http_status = 400

====
